---- MODULE Spec2Model ----
(***************************************************************************)
(* Request-execution engine of front-util/request: createRequestInternal   *)
(* (src/src/request.ts), the shared TTL cache apiCache (src/src/cache.ts)  *)
(* and the helpers it imports (isGetMethod, parseResponse).                *)
(*                                                                         *)
(* Every await of the engine is a position (pc) of a logical request; one  *)
(* action is the synchronous code that runs between two awaits.            *)
(*                                                                         *)
(* Encodings: status 0 is `null`; data 0 is `undefined`, data -1 is        *)
(* `null`, data n > 0 is the body delivered by the network call of the     *)
(* attempt with execution id n, 100 + n when that body does not match the  *)
(* response schema; error "" is `undefined`; errorBody is the body of the  *)
(* HttpError in error: n > 0 is the payload parsed from the response of     *)
(* attempt n, 0 is `undefined`. validate stands for                        *)
(* validate.response together with schemas.response.                       *)
(* Outcome of a settled fetch: a status > 0 is a Response, 0 is a          *)
(* transport failure (TypeError), -1 is the AbortError DOMException.       *)
(*                                                                         *)
(* A logical request that has returned keeps nothing: its locals are dead, *)
(* as is the AbortSignal of an attempt that has ended.                     *)
(***************************************************************************)
EXTENDS Integers, Sequences, FiniteSets, TLC

\* ---- bounds ------------------------------------------------------------
NumStores == 1
MaxAttempts == 3
MaxTime == 2
MaxLive == 2
MaxHandlers == 3

Stores == 1..NumStores
Ids == 1..MaxAttempts

\* ---- program constants -------------------------------------------------
DEFAULT_EMPTY_STATUS_CODES == {204, 205}
DEFAULT_RETRY_DELAY == 1000

\* ---- request descriptions ----------------------------------------------
BaseConfig ==
    [method |-> "GET", url |-> "/a", cacheKey |-> "", ttl |-> 1,
     forceRefresh |-> FALSE, timeout |-> 0, retries |-> 0, retryDelay |-> 0,
     retryOn |-> "none",
     emptyStatusCodes |-> {}, validate |-> FALSE, onValidationError |-> "none"]

\* the descriptions the stores of Spec are created with
Configs ==
    { BaseConfig,
      [BaseConfig EXCEPT !.method = "POST"],
      [BaseConfig EXCEPT !.url = "/b", !.ttl = 0, !.forceRefresh = TRUE,
                         !.timeout = 1, !.retries = 2,
                         !.emptyStatusCodes = {202, 400},
                         !.validate = TRUE, !.onValidationError = "throws"],
      [BaseConfig EXCEPT !.url = "/c", !.ttl = 0, !.retries = 1,
                         !.retryOn = "throws"],
      [BaseConfig EXCEPT !.url = "/d", !.ttl = 0, !.retries = 2,
                         !.validate = TRUE] }

\* the descriptions the stores of SpecCache are created with
CacheConfigs ==
    { BaseConfig,
      [BaseConfig EXCEPT !.method = "POST"],
      [BaseConfig EXCEPT !.ttl = 0, !.cacheKey = "z"],
      [BaseConfig EXCEPT !.forceRefresh = TRUE] }

\* statuses a Response can carry; ok is 200..299 as in the Fetch API
Statuses == {200, 202, 204, 400, 500}
ResponseOk(status) == status >= 200 /\ status <= 299

\* what an interceptor pipeline can do to a config
Transforms == {"identity", "rekey"}
ApplyTransform(tr, rc) ==
    IF tr = "rekey" THEN [rc EXCEPT !.cacheKey = "k"] ELSE rc

\* ---- utils -------------------------------------------------------------
ToUpperCase(m) == IF m = "get" THEN "GET" ELSE IF m = "post" THEN "POST" ELSE m

IsGetMethod(rc) == ToUpperCase(IF rc.method = "" THEN "GET" ELSE rc.method) = "GET"

\* ---- cache.ts ----------------------------------------------------------
\* variant of generateCacheKey that ignores the explicit key
GenerateCacheKeyMethodUrl(rc) ==
    (IF rc.method = "" THEN "GET" ELSE rc.method) \o ":" \o rc.url

GenerateCacheKey(rc) ==
    IF rc.cacheKey # "" THEN rc.cacheKey
    ELSE (IF rc.method = "" THEN "GET" ELSE rc.method) \o ":" \o rc.url

\* variant of Map.delete that empties the map
MapDeleteAll(m, key) == << >>

MapDelete(m, key) == [k \in DOMAIN m \ {key} |-> m[k]]

\* variant of get that never finds an entry
CacheGetAlwaysMiss(m, rc, t) == [hit |-> FALSE, cache |-> m]

\* variant of get for which an entry expires at its timestamp
CacheGetExpiresAtTimestamp(m, rc, t) ==
    LET key == GenerateCacheKey(rc) IN
    IF ~IsGetMethod(rc) THEN [hit |-> FALSE, cache |-> m]
    ELSE IF key \notin DOMAIN m THEN [hit |-> FALSE, cache |-> m]
    ELSE IF m[key].ttlTimestamp <= t THEN [hit |-> FALSE, cache |-> MapDelete(m, key)]
    ELSE [hit |-> TRUE, cache |-> m]

\* get: the entry (or none) and the cache after the lazy eviction
CacheGet(m, rc, t) ==
    LET key == GenerateCacheKey(rc) IN
    IF ~IsGetMethod(rc) THEN [hit |-> FALSE, cache |-> m]
    ELSE IF key \notin DOMAIN m THEN [hit |-> FALSE, cache |-> m]
    ELSE IF m[key].ttlTimestamp < t THEN [hit |-> FALSE, cache |-> MapDelete(m, key)]
    ELSE [hit |-> TRUE, cache |-> m]

\* variant of set that keeps an entry that is already there
CacheSetIfAbsent(m, rc, data, status, ttl, t) ==
    IF ~IsGetMethod(rc) \/ ttl <= 0 THEN m
    ELSE m @@ (GenerateCacheKey(rc) :>
                 [data |-> data, status |-> status, ttlTimestamp |-> t + ttl,
                  by |-> [method |-> rc.method, ttl |-> ttl]])

\* variant of set without the method guard
CacheSetAnyMethod(m, rc, data, status, ttl, t) ==
    IF ttl <= 0 THEN m
    ELSE (GenerateCacheKey(rc) :>
            [data |-> data, status |-> status, ttlTimestamp |-> t + ttl,
             by |-> [method |-> rc.method, ttl |-> ttl]]) @@ m

\* set; the field `by` of an entry is history: the arguments of the set()
\* call that wrote it
CacheSet(m, rc, data, status, ttl, t) ==
    IF ~IsGetMethod(rc) \/ ttl <= 0 THEN m
    ELSE (GenerateCacheKey(rc) :>
            [data |-> data, status |-> status, ttlTimestamp |-> t + ttl,
             by |-> [method |-> rc.method, ttl |-> ttl]]) @@ m

\* variant of invalidate that deletes nothing
CacheInvalidateNoop(m, rc) == m

CacheInvalidate(m, rc) == MapDelete(m, GenerateCacheKey(rc))

\* invalidate called with a key string
CacheInvalidateKey(m, key) == MapDelete(m, key)

\* a RegExp /^prefix/ or /^prefix/g. test(key) starts at lastIndex when the
\* pattern is global: the anchor matches at index 0 only, a match leaves
\* lastIndex behind the matched text, a failure resets it to 0
StartsWith(key, prefix) ==
    Len(key) >= Len(prefix) /\ SubSeq(key, 1, Len(prefix)) = prefix

RegExpTest(p, lastIndex, key) ==
    IF ~p.global
    THEN [match |-> StartsWith(key, p.prefix), lastIndex |-> lastIndex]
    ELSE IF lastIndex = 0 /\ StartsWith(key, p.prefix)
    THEN [match |-> TRUE, lastIndex |-> Len(p.prefix)]
    ELSE [match |-> FALSE, lastIndex |-> 0]

\* invalidateByPattern: the loop over cache.keys() in the order ord
RECURSIVE CacheInvalidateByPattern(_, _, _, _)
CacheInvalidateByPattern(m, ord, p, lastIndex) ==
    IF ord = << >> THEN m
    ELSE LET r == RegExpTest(p, lastIndex, Head(ord)) IN
         CacheInvalidateByPattern(IF r.match THEN MapDelete(m, Head(ord)) ELSE m,
                                  Tail(ord), p, r.lastIndex)

\* clear
CacheClear(m) == << >>

\* ---- state -------------------------------------------------------------
VARIABLES
    now,         \* Date.now()
    cache,       \* apiCache: fingerprint -> entry
    counter,     \* globalRequestCounter
    created,     \* stores that exist
    cfg,         \* requestConfig of each store
    baseURL,     \* serviceContext.baseURL of each store
    state,       \* stateSignal.value of each store
    execId,      \* requestExecutionId of each store
    ctrl,        \* activeRequestController: id of the attempt it was made for, 0 = null
    destroyed,   \* isRequestStoreDestroyed
    timeoutId,   \* timeoutId: id of the attempt that armed it, 0 = null
    timers,      \* armed timers: <<attempt id, store>>
    calls,       \* executeRequestWithRetry invocations, indexed by first attempt id
    handlers,    \* InterceptorManager.handlers: a step, or "null" once ejected
    run,         \* one applyInterceptors call: its loop position and currentConfig
    ret          \* what the last direct call of a manager or cache method returned

\* the variables of the interceptor manager and of direct calls
mgr == <<handlers, run, ret>>

vars == <<now, cache, counter, created, cfg, baseURL, state, execId, ctrl, destroyed,
          timeoutId, timers, calls, handlers, run, ret>>

\* locals of one executeRequestWithRetry invocation: store, isRefetch,
\* attempt, executionId (id), position (pc), finalConfig (fcfg), the settled
\* fetch (out), abortSignal.aborted (aborted); net counts its fetch calls and
\* cancelled records the position at which cancel() first hit the current
\* attempt ("" if it did not, "backoff" if cancel() was called during the
\* backoff delay before it); body records what made handleResponse throw
\* while it parsed and validated the body ("" if it did not throw); delay
\* is the delay of the last backoff of the request, in milliseconds
NoCall ==
    [store |-> 0, refetch |-> FALSE, attempt |-> 0, id |-> 0, pc |-> "none",
     fcfg |-> BaseConfig, out |-> 0, net |-> 0, aborted |-> FALSE,
     cancelled |-> "", body |-> "", delay |-> 0]

\* the invocation returned (its promise resolved)
Returned(k) == [NoCall EXCEPT !.pc = "done"]

\* the invocation threw (its promise rejected)
Rejected(k) == [NoCall EXCEPT !.pc = "rejected"]

\* variant of the backoff delay whose exponent is the attempt number
BackoffDelayFromAttempt(rc, attempt) ==
    (IF rc.retryDelay # 0 THEN rc.retryDelay ELSE DEFAULT_RETRY_DELAY) * 2 ^ attempt

\* (requestConfig.retryDelay || DEFAULT_RETRY_DELAY) * 2 ** (attempt - 1)
BackoffDelay(rc, attempt) ==
    (IF rc.retryDelay # 0 THEN rc.retryDelay ELSE DEFAULT_RETRY_DELAY)
        * 2 ^ (attempt - 1)

\* the invocation sleeps in its backoff delay
Sleeping(k) ==
    [NoCall EXCEPT !.store = k.store, !.refetch = k.refetch, !.pc = "backoff",
                   !.attempt = k.attempt, !.net = k.net,
                   !.delay = BackoffDelay(cfg[k.store], k.attempt)]

initialState ==
    [type |-> "idle", status |-> 0, data |-> 0, error |-> "", errorBody |-> 0]

LoadingState(prev) ==
    [type |-> "loading", status |-> 0, data |-> prev, error |-> "", errorBody |-> 0]
SuccessState(status, data) ==
    [type |-> "success", status |-> status, data |-> data, error |-> "", errorBody |-> 0]
\* variant of the empty state that carries a null body
EmptyStateNullData(status) ==
    [type |-> "empty", status |-> status, data |-> -1, error |-> "", errorBody |-> 0]
EmptyState(status) ==
    [type |-> "empty", status |-> status, data |-> 0, error |-> "", errorBody |-> 0]
ErrorState(status, name) ==
    [type |-> "error", status |-> status, data |-> 0, error |-> name, errorBody |-> 0]
\* the error state of an HttpError with the given body
HttpErrorState(status, body) ==
    [type |-> "error", status |-> status, data |-> 0, error |-> "HttpError",
     errorBody |-> body]

\* no applyInterceptors call in progress
IdleRun == [pc |-> "idle", i |-> 0, cur |-> << >>, input |-> << >>,
            ran |-> << >>, dirty |-> FALSE]

\* a direct call: the method, its argument and the value it returned; alt
\* flips at every call, so that a call is a step even when it repeats the
\* one before
Returns(op, arg, val) == [op |-> op, arg |-> arg, val |-> val, alt |-> 1 - ret.alt]

Init ==
    /\ handlers = << >>
    /\ run = IdleRun
    /\ ret = [op |-> "none", arg |-> 0, val |-> 0, alt |-> 0]
    /\ now = 0
    /\ cache = << >>
    /\ counter = 0
    /\ created = [s \in Stores |-> FALSE]
    /\ cfg = [s \in Stores |-> BaseConfig]
    /\ baseURL = [s \in Stores |-> ""]
    /\ state = [s \in Stores |-> initialState]
    /\ execId = [s \in Stores |-> 0]
    /\ ctrl = [s \in Stores |-> 0]
    /\ destroyed = [s \in Stores |-> FALSE]
    /\ timeoutId = [s \in Stores |-> 0]
    /\ timers = {}
    /\ calls = [c \in Ids |-> NoCall]

\* ---- createRequestInternal: helpers ------------------------------------
\* variant of updateState without the destroyed guard
UpdateStateUnguarded(st, s, newState) == [st EXCEPT ![s] = newState]

\* updateState: dropped once the store is destroyed
UpdateState(st, s, newState) ==
    IF destroyed[s] THEN st ELSE [st EXCEPT ![s] = newState]

\* variant of isExplicitlyEmptyStatus without the default codes
IsExplicitlyEmptyStatusConfigOnly(s, status) == status \in cfg[s].emptyStatusCodes

IsExplicitlyEmptyStatus(s, status) ==
    status \in (DEFAULT_EMPTY_STATUS_CODES \cup cfg[s].emptyStatusCodes)

\* clearTimeoutIfSet, as the pair <<timers, timeoutId>> it leaves
ClearTimeoutIfSet(tm, tid, s) ==
    IF tid[s] # 0
    THEN [timers |-> {t \in tm : t # <<tid[s], s>>}, timeoutId |-> [tid EXCEPT ![s] = 0]]
    ELSE [timers |-> tm, timeoutId |-> tid]

InFlight == {"icpt", "fetch", "fetched", "parse", "errbody"}

\* AbortController.abort() on the controller made for attempt id: its signal
\* is aborted and a fetch pending on it rejects with AbortError
Abort(cs, id) ==
    [c \in DOMAIN cs |->
        IF cs[c].id = id /\ cs[c].pc \in InFlight
        THEN IF cs[c].pc = "fetch"
             THEN [cs[c] EXCEPT !.aborted = TRUE, !.pc = "fetched", !.out = -1]
             ELSE [cs[c] EXCEPT !.aborted = TRUE]
        ELSE cs[c]]

\* ---- executeRequestWithRetry: the catch block --------------------------
\* variant of the default predicate that also retries a ParsingError
DefaultRetryOnParsing(e, status) ==
    \/ e \in {"NetworkError", "TimeoutError", "ParsingError"}
    \/ (e = "HttpError" /\ status >= 500)

\* default retry predicate (used when the config has no retryOn)
DefaultRetryOn(e, status) ==
    \/ e = "NetworkError"
    \/ e = "TimeoutError"
    \/ (e = "HttpError" /\ status >= 500)

FinalError(e) ==
    IF e \in {"ParsingError", "HttpError", "CancellationError", "TimeoutError"}
    THEN e ELSE "NetworkError"

\* error e reaches the catch of the retry loop of call c; the result is the
\* call record and the published states it leaves
RetryCatch(c, e) ==
    LET k == calls[c]
        s == k.store
        rc == cfg[s]
        canTry == rc.retries # 0 /\ k.attempt <= rc.retries
    IN  IF e = "AbortError"
        THEN [call |-> Returned(k), state |-> state]
        ELSE IF canTry /\ rc.retryOn = "throws"
        THEN [call |-> Rejected(k), state |-> state]
        ELSE IF canTry /\ (IF rc.retryOn # "none" THEN rc.retryOn = "true"
                                                  ELSE DefaultRetryOn(e, 0))
        THEN [call |-> Sleeping(k), state |-> state]
        ELSE [call |-> Returned(k),
              state |-> UpdateState(state, s, ErrorState(0, FinalError(e)))]

\* variant of previousData that carries data over from a success state only
PreviousDataSuccessOnly(st) ==
    IF st.type = "success" THEN st.data ELSE 0

\* executeRequestAttempt: the data the loading state keeps, that of a
\* success or loading state, undefined (0) otherwise
PreviousData(st) ==
    IF st.type \in {"success", "loading"} THEN st.data ELSE 0

\* ---- executeRequestWithRetry: loop head + executeRequestAttempt start --
\* abort the active controller, take a new execution id and controller,
\* publish loading and start the interceptor pipeline
BeginAttempt(s, c, base) ==
    /\ counter < MaxAttempts
    /\ LET id == counter + 1 IN
       /\ counter' = id
       /\ execId' = [execId EXCEPT ![s] = id]
       /\ ctrl' = [ctrl EXCEPT ![s] = id]
       /\ IF destroyed[s]
          THEN /\ calls' = [Abort(calls, ctrl[s]) EXCEPT ![c] = Returned(base)]
               /\ state' = state
          ELSE /\ calls' = [Abort(calls, ctrl[s]) EXCEPT
                              ![c] = [base EXCEPT !.id = id, !.pc = "icpt"]]
               /\ state' = UpdateState(state, s,
                     LoadingState(PreviousData(state[s])))

\* variant of the cache condition that does not look at forceRefresh
ShouldConsultCacheForced(isRefetch, rc) ==
    ~isRefetch /\ IsGetMethod(rc)

ShouldConsultCache(isRefetch, rc) ==
    ~isRefetch /\ IsGetMethod(rc) /\ ~rc.forceRefresh

\* variant of executeRequestWithRetry without the guard on a destroyed store
ExecuteRequestWithRetryUnguarded(s, rc, isRefetch, m) ==
    LET new == [NoCall EXCEPT !.store = s, !.refetch = isRefetch, !.attempt = 1]
        r == CacheGet(m, rc, now)
    IN  IF ShouldConsultCache(isRefetch, rc)
        THEN /\ cache' = r.cache
             /\ IF r.hit
                THEN /\ state' = UpdateState(state, s,
                            SuccessState(m[GenerateCacheKey(rc)].status,
                                         m[GenerateCacheKey(rc)].data))
                     /\ UNCHANGED <<counter, execId, ctrl, calls>>
                ELSE BeginAttempt(s, counter + 1, new)
        ELSE /\ cache' = m
             /\ BeginAttempt(s, counter + 1, new)

\* executeRequestWithRetry up to its first await; m is the cache it starts from
ExecuteRequestWithRetry(s, rc, isRefetch, m) ==
    LET new == [NoCall EXCEPT !.store = s, !.refetch = isRefetch, !.attempt = 1]
        r == CacheGet(m, rc, now)
    IN  IF destroyed[s]
        THEN /\ cache' = m
             /\ UNCHANGED <<counter, state, execId, ctrl, calls>>
        ELSE IF ShouldConsultCache(isRefetch, rc)
        THEN /\ cache' = r.cache
             /\ IF r.hit
                THEN /\ state' = UpdateState(state, s,
                            SuccessState(m[GenerateCacheKey(rc)].status,
                                         m[GenerateCacheKey(rc)].data))
                     /\ UNCHANGED <<counter, execId, ctrl, calls>>
                ELSE BeginAttempt(s, counter + 1, new)
        ELSE /\ cache' = m
             /\ BeginAttempt(s, counter + 1, new)

\* ---- operations --------------------------------------------------------
\* variant of createRequestInternal that starts the first attempt for any method
CreateStoreAnyMethod(s, rc) ==
    /\ ~created[s]
    /\ \A o \in Stores : o < s => created[o]
    /\ created' = [created EXCEPT ![s] = TRUE]
    /\ cfg' = [cfg EXCEPT ![s] = rc]
    /\ ExecuteRequestWithRetry(s, rc, FALSE, cache)
    /\ UNCHANGED <<mgr, now, baseURL, destroyed, timeoutId, timers>>

\* createRequestInternal: a GET store fetches on construction
CreateStore(s, rc) ==
    /\ ~created[s]
    /\ \A o \in Stores : o < s => created[o]
    /\ created' = [created EXCEPT ![s] = TRUE]
    /\ cfg' = [cfg EXCEPT ![s] = rc]
    /\ IF IsGetMethod(rc)
       THEN ExecuteRequestWithRetry(s, rc, FALSE, cache)
       ELSE UNCHANGED <<cache, counter, state, execId, ctrl, calls>>
    /\ UNCHANGED <<mgr, now, baseURL, destroyed, timeoutId, timers>>

\* createApiClient({baseURL: base}): the client that mints store s
CreateApiClient(s, base) ==
    /\ ~created[s]
    /\ baseURL[s] # base
    /\ baseURL' = [baseURL EXCEPT ![s] = base]
    /\ UNCHANGED <<mgr, now, cache, counter, created, cfg, state, execId, ctrl,
                   destroyed, timeoutId, timers, calls>>

\* refetch(); at most `live` logical requests are unfinished at a time
Refetch(s, live) ==
    /\ created[s]
    /\ Cardinality({c \in Ids : calls[c].pc \in InFlight \cup {"backoff"}}) < live
    /\ ExecuteRequestWithRetry(s, cfg[s], TRUE, CacheInvalidate(cache, cfg[s]))
    /\ UNCHANGED <<mgr, now, created, cfg, baseURL, destroyed, timeoutId, timers>>

MarkCancelled(cs, id) ==
    [c \in DOMAIN cs |->
        IF cs[c].id = id /\ cs[c].pc \in InFlight /\ cs[c].cancelled \in {"", "backoff"}
        THEN [cs[c] EXCEPT !.cancelled = cs[c].pc] ELSE cs[c]]

\* history: cancel() of store s was called while the request slept in its
\* backoff delay
MarkSleeping(cs, s) ==
    [c \in DOMAIN cs |->
        IF cs[c].store = s /\ cs[c].pc = "backoff"
        THEN [cs[c] EXCEPT !.cancelled = "backoff"] ELSE cs[c]]

\* variant of cancel() that also puts the store back into its initial state
CancelToIdle(s) ==
    /\ created[s]
    /\ ctrl[s] # 0
    /\ calls' = Abort(MarkCancelled(MarkSleeping(calls, s), ctrl[s]), ctrl[s])
    /\ state' = UpdateState(state, s, initialState)
    /\ UNCHANGED <<mgr, now, cache, counter, created, cfg, baseURL, execId, ctrl,
                   destroyed, timeoutId, timers>>

\* cancel(): abort the active controller

Cancel(s) ==
    /\ created[s]
    /\ ctrl[s] # 0
    /\ calls' = Abort(MarkCancelled(MarkSleeping(calls, s), ctrl[s]), ctrl[s])
    /\ UNCHANGED <<mgr, now, cache, counter, created, cfg, baseURL, state, execId, ctrl,
                   destroyed, timeoutId, timers>>

Destroy(s) ==
    /\ created[s]
    /\ destroyed' = [destroyed EXCEPT ![s] = TRUE]
    /\ calls' = Abort(MarkCancelled(MarkSleeping(calls, s), ctrl[s]), ctrl[s])
    /\ timers' = ClearTimeoutIfSet(timers, timeoutId, s).timers
    /\ timeoutId' = ClearTimeoutIfSet(timers, timeoutId, s).timeoutId
    /\ UNCHANGED <<mgr, now, cache, counter, created, cfg, baseURL, state, execId, ctrl>>

\* the application drops a store none of whose requests is unfinished: the
\* object is unreachable, and the next store is a fresh
\* createRequestInternal closure
Forget(s) ==
    /\ created[s]
    /\ \A c \in Ids : calls[c].store # s
    /\ created' = [created EXCEPT ![s] = FALSE]
    /\ cfg' = [cfg EXCEPT ![s] = BaseConfig]
    /\ state' = [state EXCEPT ![s] = initialState]
    /\ execId' = [execId EXCEPT ![s] = 0]
    /\ ctrl' = [ctrl EXCEPT ![s] = 0]
    /\ destroyed' = [destroyed EXCEPT ![s] = FALSE]
    /\ timeoutId' = [timeoutId EXCEPT ![s] = 0]
    /\ baseURL' = [baseURL EXCEPT ![s] = ""]
    /\ timers' = {t \in timers : t[2] # s}
    /\ UNCHANGED <<mgr, now, cache, counter, calls>>

\* ---- buildRequestUrl and the network ------------------------------------
\* the base URLs of the clients of SpecClients
BaseURLs == {"", "https://a", "https://a/", "https://b"}

\* url.startsWith('http') || url.startsWith('//'), on the urls of the model
IsAbsolute(url) == url \in {"https://c/a", "//c/a"}

\* baseURL.endsWith('/') ? baseURL : baseURL + '/'
WithTrailingSlash(base) ==
    CASE base = "https://a" -> "https://a/"
      [] base = "https://b" -> "https://b/"
      [] OTHER -> base

\* url.startsWith('/') ? url.slice(1) : url
WithoutLeadingSlash(url) ==
    CASE url = "/a" -> "a"
      [] url = "/b" -> "b"
      [] url = "/c" -> "c"
      [] url = "/d" -> "d"
      [] OTHER -> url

\* buildRequestUrl: the pair <<x, y>> stands for the string x + y
BuildRequestUrl(base, url) ==
    IF ~IsAbsolute(url) /\ base # ""
    THEN <<WithTrailingSlash(base), WithoutLeadingSlash(url)>>
    ELSE <<"", url>>

\* the server a resolved URL is served by: 0 is the origin of the page
ServerOf(finalUrl) ==
    CASE finalUrl[1] = "https://a/" -> 1
      [] finalUrl[1] = "https://b/" -> 2
      [] finalUrl[1] = "" /\ IsAbsolute(finalUrl[2]) -> 3
      [] OTHER -> 0

\* fetch(finalUrl): the body a server answers attempt id with; every
\* server answers with bodies of its own
ResponseBody(finalUrl, id) == id + 10 * ServerOf(finalUrl)

\* the server a body came from
ServerOfBody(data) == data \div 10

\* ---- executeRequestAttempt: the awaits ---------------------------------
\* the interceptor pipeline resolved: arm the timeout, call fetch
InterceptorsResolve(c, tr) ==
    LET k == calls[c]
        s == k.store
        f == ApplyTransform(tr, cfg[s])
    IN  /\ k.pc = "icpt"
        /\ calls' = [calls EXCEPT ![c] =
              [k EXCEPT !.fcfg = f, !.net = @ + 1,
                        !.pc = IF k.aborted THEN "fetched" ELSE "fetch",
                        !.out = IF k.aborted THEN -1 ELSE 0]]
        /\ IF f.timeout > 0
           THEN /\ timeoutId' = [timeoutId EXCEPT ![s] = k.id]
                /\ timers' = timers \cup {<<k.id, s>>}
           ELSE UNCHANGED <<timeoutId, timers>>
        /\ UNCHANGED <<mgr, now, cache, counter, created, cfg, baseURL, state, execId, ctrl,
                       destroyed>>

\* variant of the interceptor failure that goes on to a retry
InterceptorsThrowRetried(c) ==
    LET k == calls[c] IN
    /\ k.pc = "icpt"
    /\ state' = UpdateState(state, k.store, ErrorState(0, "InterceptorError"))
    /\ calls' = [calls EXCEPT ![c] = Sleeping(k)]
    /\ UNCHANGED <<mgr, now, cache, counter, created, cfg, baseURL, execId, ctrl, destroyed,
                   timeoutId, timers>>

\* an interceptor step threw: applyInterceptors publishes the error and
\* executeRequestAttempt returns
InterceptorsThrow(c) ==
    LET k == calls[c] IN
    /\ k.pc = "icpt"
    /\ state' = UpdateState(state, k.store, ErrorState(0, "InterceptorError"))
    /\ calls' = [calls EXCEPT ![c] = Returned(k)]
    /\ UNCHANGED <<mgr, now, cache, counter, created, cfg, baseURL, execId, ctrl, destroyed,
                   timeoutId, timers>>

\* the network settles a pending fetch: a Response or a transport failure
FetchSettle(c, out) ==
    /\ calls[c].pc = "fetch"
    /\ calls' = [calls EXCEPT ![c] = [@ EXCEPT !.pc = "fetched", !.out = out]]
    /\ UNCHANGED <<mgr, now, cache, counter, created, cfg, baseURL, state, execId, ctrl,
                   destroyed, timeoutId, timers>>

\* the continuation of `await fetch(...)`
FetchResume(c) ==
    LET k == calls[c]
        s == k.store
        cl == ClearTimeoutIfSet(timers, timeoutId, s)
        e == IF k.out > 0 THEN "CancellationError"
             ELSE IF k.out = 0 THEN "TypeError"
             ELSE IF k.fcfg.timeout # 0 THEN "TimeoutError" ELSE "AbortError"
        r == RetryCatch(c, e)
    IN  /\ k.pc = "fetched"
        /\ timers' = cl.timers
        /\ timeoutId' = cl.timeoutId
        /\ IF k.out <= 0 \/ k.aborted
           THEN /\ calls' = [calls EXCEPT ![c] = r.call]
                /\ state' = r.state
                /\ cache' = cache
           ELSE IF k.id # execId[s] \/ destroyed[s]
           THEN /\ calls' = [calls EXCEPT ![c] = Returned(k)]
                /\ UNCHANGED <<state, cache>>
           ELSE IF ResponseOk(k.out)
           THEN /\ calls' = [calls EXCEPT ![c] = [k EXCEPT !.pc = "parse"]]
                /\ UNCHANGED <<state, cache>>
           ELSE IF IsExplicitlyEmptyStatus(s, k.out)
           THEN /\ calls' = [calls EXCEPT ![c] = Returned(k)]
                /\ state' = UpdateState(state, s, EmptyState(k.out))
                /\ cache' = CacheInvalidate(cache, k.fcfg)
           ELSE /\ calls' = [calls EXCEPT ![c] = [k EXCEPT !.pc = "errbody"]]
                /\ UNCHANGED <<state, cache>>
        /\ UNCHANGED <<mgr, now, counter, created, cfg, baseURL, execId, ctrl, destroyed>>

\* a decoded body that validateSchema rejects
InvalidBody(id) == 100 + id
FailsSchema(data) == data > 100

\* what parseResponse, validateSchema and the validation callback can do
\* with a body: "invalid" is a decoded body that fails the schema with no
\* callback to tell, "callbackThrows" one whose callback throws
BodyOutcomes(k) ==
    (IF k.out \in {204, 205} THEN {"null"} ELSE {"data", "null", "parseThrows"})
    \cup (IF k.fcfg.validate /\ k.fcfg.onValidationError = "throws"
          THEN {"callbackThrows"} ELSE {})
    \cup (IF k.fcfg.validate /\ k.fcfg.onValidationError # "throws"
             /\ k.out \notin {204, 205}
          THEN {"invalid"} ELSE {})

\* the continuation of `await parseResponse(...)` in handleResponse
ParseResume(c, body) ==
    LET k == calls[c]
        s == k.store
        finalUrl == BuildRequestUrl(baseURL[s], k.fcfg.url)
        resultData == IF body = "data" THEN ResponseBody(finalUrl, k.id)
                      ELSE IF body = "invalid" THEN InvalidBody(k.id) ELSE -1
        r == RetryCatch(c, IF body = "parseThrows" THEN "ParsingError" ELSE "Error")
    IN  /\ k.pc = "parse"
        /\ body \in BodyOutcomes(k)
        /\ IF body \in {"parseThrows", "callbackThrows"}
           THEN /\ calls' = [calls EXCEPT ![c] = [r.call EXCEPT !.body = body]]
                /\ state' = r.state
                /\ cache' = cache
           ELSE IF IsExplicitlyEmptyStatus(s, k.out)
           THEN /\ calls' = [calls EXCEPT ![c] = Returned(k)]
                /\ state' = UpdateState(state, s, EmptyState(k.out))
                /\ cache' = CacheInvalidate(cache, k.fcfg)
           ELSE /\ calls' = [calls EXCEPT ![c] = Returned(k)]
                /\ state' = UpdateState(state, s, SuccessState(k.out, resultData))
                /\ cache' = IF k.fcfg.ttl > 0
                            THEN CacheSet(cache, k.fcfg, resultData, k.out, k.fcfg.ttl, now)
                            ELSE cache
        /\ UNCHANGED <<mgr, now, counter, created, cfg, baseURL, execId, ctrl, destroyed,
                       timeoutId, timers>>

\* variant of the error-body read in which a body that is not JSON is a
\* parsing error
ErrorBodyResumeStrict(c, parsed) ==
    LET k == calls[c]
        s == k.store
    IN  /\ k.pc = "errbody"
        /\ calls' = [calls EXCEPT ![c] = Returned(k)]
        /\ state' = UpdateState(state, s,
                        IF parsed THEN HttpErrorState(k.out, k.id)
                        ELSE ErrorState(0, "ParsingError"))
        /\ cache' = CacheInvalidate(cache, k.fcfg)
        /\ UNCHANGED <<mgr, now, counter, created, cfg, baseURL, execId, ctrl, destroyed,
                       timeoutId, timers>>

\* the continuation of `await responseClone.json()` for an HTTP error;
\* parsed tells whether the body was JSON
ErrorBodyResume(c, parsed) ==
    LET k == calls[c]
        s == k.store
    IN  /\ k.pc = "errbody"
        /\ calls' = [calls EXCEPT ![c] = Returned(k)]
        /\ state' = UpdateState(state, s,
                        HttpErrorState(k.out, IF parsed THEN k.id ELSE 0))
        /\ cache' = CacheInvalidate(cache, k.fcfg)
        /\ UNCHANGED <<mgr, now, counter, created, cfg, baseURL, execId, ctrl, destroyed,
                       timeoutId, timers>>

\* the backoff delay elapsed: attempt++ and the loop starts over
BackoffWake(c) ==
    LET k == calls[c] IN
    /\ k.pc = "backoff"
    /\ BeginAttempt(k.store, c, [k EXCEPT !.attempt = @ + 1, !.body = ""])
    /\ UNCHANGED <<mgr, now, cache, created, cfg, baseURL, destroyed, timeoutId, timers>>

\* the setTimeout callback armed by an attempt; a timer callback is a task
\* of its own: it does not run while the continuation of a settled fetch is
\* still waiting in the microtask queue
TimerFire(t) ==
    /\ t \in timers
    /\ \A c \in Ids : calls[c].pc # "fetched"
    /\ timers' = timers \ {t}
    /\ calls' = Abort(calls, ctrl[t[2]])
    /\ UNCHANGED <<mgr, now, cache, counter, created, cfg, baseURL, state, execId, ctrl,
                   destroyed, timeoutId>>

\* ---- environment -------------------------------------------------------
Tick ==
    /\ now < MaxTime
    /\ now' = now + 1
    /\ UNCHANGED <<mgr, cache, counter, created, cfg, baseURL, state, execId, ctrl,
                   destroyed, timeoutId, timers, calls>>

\* apiCache.set called directly, with a body of the caller's (-2)
DirectSet(rc, ttl) ==
    /\ cache' = CacheSet(cache, rc, -2, 200, ttl, now)
    /\ UNCHANGED <<mgr, now, counter, created, cfg, baseURL, state, execId, ctrl, destroyed,
                   timeoutId, timers, calls>>

DirectInvalidate(rc) ==
    /\ cache' = CacheInvalidate(cache, rc)
    /\ UNCHANGED <<mgr, now, counter, created, cfg, baseURL, state, execId, ctrl, destroyed,
                   timeoutId, timers, calls>>

\* ---- interceptors.ts: InterceptorManager --------------------------------
\* interceptor steps; a config is modelled here by the marks the steps left
\* on it, in the order they ran
Steps == {"a", "b"}
StepApply(h, config) == Append(config, h)

\* use: push, and the id it returns
HandlersUse(h, step) == [handlers |-> Append(h, step), id |-> Len(h)]

\* variant of eject that removes the slot and shifts the later ones
HandlersEjectSplice(h, id) ==
    IF id >= 0 /\ id < Len(h)
    THEN SubSeq(h, 1, id) \o SubSeq(h, id + 2, Len(h))
    ELSE h

\* variant of eject that counts a negative id from the end of the array
HandlersEjectFromEnd(h, id) ==
    IF id >= 0 /\ id < Len(h) THEN [h EXCEPT ![id + 1] = "null"]
    ELSE IF id < 0 /\ Len(h) + id >= 0 THEN [h EXCEPT ![Len(h) + id + 1] = "null"]
    ELSE h

\* eject: the slot becomes null when the id is inside the array
HandlersEject(h, id) ==
    IF id >= 0 /\ id < Len(h) THEN [h EXCEPT ![id + 1] = "null"] ELSE h

\* variant of the loop that does not skip ejected slots
NextSlotUnfiltered(h, i) == IF i <= Len(h) THEN i ELSE 0

\* the for..of loop from slot i on: the first slot that holds a step, 0 when
\* the array is exhausted (slots are 1-based here, ids 0-based)
NextSlot(h, i) ==
    IF \E j \in i..Len(h) : h[j] # "null"
    THEN CHOOSE j \in i..Len(h) : h[j] # "null" /\ \A l \in i..(j - 1) : h[l] = "null"
    ELSE 0

\* the loop goes on from slot i with currentConfig cur: it calls the next
\* step and awaits it, or returns currentConfig
Iterate(r, i, cur) ==
    LET j == NextSlot(handlers, i) IN
    IF j = 0
    THEN /\ run' = IdleRun
         /\ ret' = Returns("applyInterceptors", r.input,
                           [config |-> cur, ran |-> r.ran, dirty |-> r.dirty])
    ELSE /\ run' = [r EXCEPT !.pc = "await", !.i = j,
                             !.cur = StepApply(handlers[j], cur),
                             !.ran = Append(r.ran, j - 1)]
         /\ ret' = ret

Use(step) ==
    /\ Len(handlers) < MaxHandlers
    /\ handlers' = HandlersUse(handlers, step).handlers
    /\ ret' = Returns("use", step, HandlersUse(handlers, step).id)
    /\ run' = IF run.pc = "idle" THEN run ELSE [run EXCEPT !.dirty = TRUE]
    /\ UNCHANGED <<now, cache, counter, created, cfg, baseURL, state, execId, ctrl,
                   destroyed, timeoutId, timers, calls>>

Eject(id) ==
    /\ handlers' = HandlersEject(handlers, id)
    /\ ret' = Returns("eject", id, 0)
    /\ run' = IF run.pc = "idle" THEN run ELSE [run EXCEPT !.dirty = TRUE]
    /\ UNCHANGED <<now, cache, counter, created, cfg, baseURL, state, execId, ctrl,
                   destroyed, timeoutId, timers, calls>>

\* applyInterceptors(config) up to its first await
ApplyInterceptors(config) ==
    /\ run.pc = "idle"
    /\ Iterate([IdleRun EXCEPT !.input = config], 1, config)
    /\ UNCHANGED <<handlers, now, cache, counter, created, cfg, baseURL, state, execId,
                   ctrl, destroyed, timeoutId, timers, calls>>

\* the continuation of `await handler(currentConfig)`
StepResume ==
    /\ run.pc = "await"
    /\ Iterate(run, run.i + 1, run.cur)
    /\ UNCHANGED <<handlers, now, cache, counter, created, cfg, baseURL, state, execId,
                   ctrl, destroyed, timeoutId, timers, calls>>

\* ---- cache.ts: CacheStore called directly ---------------------------------
\* descriptions: GET, default method, lower-case method with an explicit
\* key, non-GET without and with the same explicit key
StoreConfigs ==
    { BaseConfig,
      [BaseConfig EXCEPT !.method = ""],
      [BaseConfig EXCEPT !.method = "", !.url = "/ab"],
      [BaseConfig EXCEPT !.method = "get", !.cacheKey = "k"],
      [BaseConfig EXCEPT !.method = "POST"],
      [BaseConfig EXCEPT !.method = "POST", !.cacheKey = "k"] }

StoreKeys == {"GET:/a", "k", "POST:/a", "GET:/ab/c"}

Patterns == [prefix : {"GET:/a", "k"}, global : BOOLEAN]

NoEntry == [data |-> 0, status |-> 0, ttlTimestamp |-> 0,
            by |-> [method |-> "", ttl |-> 0]]

\* the orders in which a Map can hold the keys of m: a Map iterates in
\* insertion order, and the keys present can have been inserted in any order
KeyOrders(m) ==
    {ord \in [1..Cardinality(DOMAIN m) -> DOMAIN m] :
        \A i, j \in DOMAIN ord : i # j => ord[i] # ord[j]}

Get(rc) ==
    /\ cache' = CacheGet(cache, rc, now).cache
    /\ ret' = Returns("get", rc,
                      [hit |-> CacheGet(cache, rc, now).hit,
                       entry |-> IF CacheGet(cache, rc, now).hit
                                 THEN cache[GenerateCacheKey(rc)] ELSE NoEntry])
    /\ UNCHANGED <<handlers, run, now, counter, created, cfg, baseURL, state, execId,
                   ctrl, destroyed, timeoutId, timers, calls>>

Set(rc, data, status, ttl) ==
    /\ cache' = CacheSet(cache, rc, data, status, ttl, now)
    /\ ret' = Returns("set", [config |-> rc, data |-> data, status |-> status,
                             ttl |-> ttl], 0)
    /\ UNCHANGED <<handlers, run, now, counter, created, cfg, baseURL, state, execId,
                   ctrl, destroyed, timeoutId, timers, calls>>

Invalidate(rc) ==
    /\ cache' = CacheInvalidate(cache, rc)
    /\ ret' = Returns("invalidate", rc, 0)
    /\ UNCHANGED <<handlers, run, now, counter, created, cfg, baseURL, state, execId,
                   ctrl, destroyed, timeoutId, timers, calls>>

InvalidateKey(key) ==
    /\ cache' = CacheInvalidateKey(cache, key)
    /\ ret' = Returns("invalidateKey", key, 0)
    /\ UNCHANGED <<handlers, run, now, counter, created, cfg, baseURL, state, execId,
                   ctrl, destroyed, timeoutId, timers, calls>>

InvalidateByPattern(p, ord) ==
    /\ ord \in KeyOrders(cache)
    /\ cache' = CacheInvalidateByPattern(cache, ord, p, 0)
    /\ ret' = Returns("invalidateByPattern", p, 0)
    /\ UNCHANGED <<handlers, run, now, counter, created, cfg, baseURL, state, execId,
                   ctrl, destroyed, timeoutId, timers, calls>>

Clear ==
    /\ cache' = CacheClear(cache)
    /\ ret' = Returns("clear", 0, 0)
    /\ UNCHANGED <<handlers, run, now, counter, created, cfg, baseURL, state, execId,
                   ctrl, destroyed, timeoutId, timers, calls>>

NextStore ==
    \/ \E rc \in StoreConfigs : Get(rc)
    \/ \E rc \in StoreConfigs, data \in {1, 2}, ttl \in {0, 1} : Set(rc, data, 200, ttl)
    \/ \E rc \in StoreConfigs : Invalidate(rc)
    \/ \E key \in StoreKeys : InvalidateKey(key)
    \/ \E p \in Patterns : \E ord \in KeyOrders(cache) : InvalidateByPattern(p, ord)
    \/ Clear
    \/ Tick

\* one CacheStore under any sequence of direct calls, with the clock
SpecStore == Init /\ [][NextStore]_vars

NextInterceptors ==
    \/ \E step \in Steps : Use(step)
    \/ \E id \in -1..MaxHandlers : Eject(id)
    \/ \E config \in {<< >>, <<"x">>} : ApplyInterceptors(config)
    \/ StepResume

\* one InterceptorManager under any sequence of use, eject and pipeline runs
SpecInterceptors == Init /\ [][NextInterceptors]_vars

Next ==
    \/ \E s \in Stores, rc \in Configs : CreateStore(s, rc)
    \/ \E s \in Stores : Refetch(s, MaxLive)
    \/ \E s \in Stores : Cancel(s)
    \/ \E s \in Stores : Destroy(s)
    \/ \E c \in Ids, tr \in Transforms : InterceptorsResolve(c, tr)
    \/ \E c \in Ids : InterceptorsThrow(c)
    \/ \E c \in Ids, out \in Statuses \cup {0} : FetchSettle(c, out)
    \/ \E c \in Ids : FetchResume(c)
    \/ \E c \in Ids, body \in {"data", "null", "invalid", "parseThrows", "callbackThrows"} :
          ParseResume(c, body)
    \/ \E c \in Ids, parsed \in BOOLEAN : ErrorBodyResume(c, parsed)
    \/ \E c \in Ids : BackoffWake(c)
    \/ \E t \in timers : TimerFire(t)

\* every kind of description, overlapping logical requests; no clock and no
\* direct cache call
Spec == Init /\ [][Next]_vars

NextCache ==
    \/ \E s \in Stores, rc \in CacheConfigs : CreateStore(s, rc)
    \/ \E s \in Stores : Forget(s)
    \/ \E s \in Stores : Refetch(s, 1)
    \/ \E s \in Stores : Cancel(s)
    \/ \E s \in Stores : Destroy(s)
    \/ \E c \in Ids, tr \in Transforms : InterceptorsResolve(c, tr)
    \/ \E c \in Ids : InterceptorsThrow(c)
    \/ \E c \in Ids, out \in {200, 204, 500, 0} : FetchSettle(c, out)
    \/ \E c \in Ids : FetchResume(c)
    \/ \E c \in Ids, body \in {"data", "null", "parseThrows"} : ParseResume(c, body)
    \/ \E c \in Ids : ErrorBodyResume(c, TRUE)
    \/ Tick
    \/ \E rc \in CacheConfigs, ttl \in {0, 1} : DirectSet(rc, ttl)
    \/ \E rc \in CacheConfigs : DirectInvalidate(rc)

\* stores created one after the other over the shared cache, descriptions
\* without retries or timeout, one logical request at a time, the clock and
\* direct cache calls
SpecCache == Init /\ [][NextCache]_vars

\* the descriptions the stores of SpecClients are created with: a relative
\* and an absolute url
ClientConfigs ==
    { BaseConfig, [BaseConfig EXCEPT !.url = "https://c/a"] }

NextClients ==
    \/ \E s \in Stores, base \in BaseURLs : CreateApiClient(s, base)
    \/ \E s \in Stores, rc \in ClientConfigs : CreateStore(s, rc)
    \/ \E s \in Stores : Forget(s)
    \/ \E c \in Ids : InterceptorsResolve(c, "identity")
    \/ \E c \in Ids, out \in {200, 0} : FetchSettle(c, out)
    \/ \E c \in Ids : FetchResume(c)
    \/ \E c \in Ids : ParseResume(c, "data")
    \/ Tick

\* stores minted one after the other by clients with different base URLs
\* over the shared cache
SpecClients == Init /\ [][NextClients]_vars

\* the descriptions the stores of SpecRetry are created with: every retryOn
\* behaviour, retries 0, 1 and 2, with and without timeout and retryDelay
RetryConfigs ==
    { [BaseConfig EXCEPT !.ttl = 0, !.retryOn = "true"],
      [BaseConfig EXCEPT !.ttl = 0, !.retries = 2, !.retryOn = "true"],
      [BaseConfig EXCEPT !.ttl = 0, !.retries = 2, !.retryOn = "false",
                         !.timeout = 1],
      [BaseConfig EXCEPT !.ttl = 0, !.retries = 1, !.timeout = 1,
                         !.retryDelay = 10],
      [BaseConfig EXCEPT !.ttl = 0, !.retries = 2, !.timeout = 1,
                         !.retryDelay = 250],
      [BaseConfig EXCEPT !.ttl = 0, !.retries = 1, !.retryOn = "throws"] }

\* the steps of logical request c that the event loop and the settling
\* network take for it
Continue(c) ==
    \/ InterceptorsResolve(c, "identity")
    \/ \E out \in {200, 404, 500, 0} : FetchSettle(c, out)
    \/ FetchResume(c)
    \/ \E body \in {"data", "parseThrows"} : ParseResume(c, body)
    \/ ErrorBodyResume(c, TRUE)
    \/ BackoffWake(c)

NextRetry ==
    \/ \E s \in Stores, rc \in RetryConfigs : CreateStore(s, rc)
    \/ \E s \in Stores : Cancel(s)
    \/ \E c \in Ids : InterceptorsThrow(c)
    \/ \E t \in timers : TimerFire(t)
    \/ \E c \in Ids : Continue(c)

\* one logical request per store, started by the constructor, under every
\* retry policy; every pending promise and timer of a request settles
SpecRetry ==
    Init /\ [][NextRetry]_vars /\ \A c \in Ids : WF_vars(Continue(c))

\* ---- properties --------------------------------------------------------
Key(s) == GenerateCacheKey(cfg[s])

\* the attempt of call c ends in this step
AttemptEnds(c) ==
    calls[c].pc \in InFlight /\ calls'[c].pc \in {"done", "rejected", "backoff"}

\* C1: once a newer attempt has started, no completion of an older attempt
\* changes the published state: whenever a step of an in-flight logical
\* request changes the state of its store, that request's attempt id is the
\* store's newest.
C1_StaleAttemptNeverCommits ==
    [][\A s \in Stores : \A c \in Ids :
          (state'[s] # state[s] /\ calls[c].store = s /\ calls[c].pc \in InFlight
             /\ calls'[c] # calls[c])
          => calls[c].id = execId[s]]_vars

\* C2: a GET store created without forceRefresh while a live (unexpired)
\* entry exists under its fingerprint publishes success with the cached
\* status and data, takes no execution id, starts no logical request (so no
\* interceptor runs and no fetch is issued).
C2_CacheHitServesWithoutNetwork ==
    [][\A s \in Stores :
          (~created[s] /\ created'[s] /\ IsGetMethod(cfg'[s]) /\ ~cfg'[s].forceRefresh
             /\ GenerateCacheKey(cfg'[s]) \in DOMAIN cache
             /\ cache[GenerateCacheKey(cfg'[s])].ttlTimestamp >= now)
          => /\ state'[s] = SuccessState(cache[GenerateCacheKey(cfg'[s])].status,
                                         cache[GenerateCacheKey(cfg'[s])].data)
             /\ counter' = counter
             /\ calls' = calls
             /\ cache' = cache]_vars

\* C2 witness: a store that never took an execution id shows data fetched by
\* an earlier store's attempt
C2_Witness ==
    \E s \in Stores : created[s] /\ execId[s] = 0 /\ state[s].type = "success"
                      /\ state[s].data > 0

\* C3: with retries = 2 and no retryOn, a logical request commits the error
\* of an HTTP 500 response only after 3 network calls, and the error of an
\* HTTP 400 response received by its first attempt after exactly 1.
C3_Http500RetriedTwice ==
    [][\A c \in Ids :
          (calls[c].pc = "errbody" /\ calls'[c].pc = "done"
             /\ cfg[calls[c].store].retries = 2 /\ cfg[calls[c].store].retryOn = "none")
          => /\ calls[c].out = 500 => calls[c].net = 3
             /\ (calls[c].out = 400 /\ calls[c].attempt = 1) => calls[c].net = 1]_vars

\* C4: when cancel() hit an attempt whose network call was pending or had
\* just resolved, and the attempt ends while it is still the store's newest,
\* the store (not destroyed) is left in the error state with a
\* CancellationError.
C4_CancelYieldsCancellationError ==
    [][\A c \in Ids :
          (calls[c].pc = "fetched" /\ calls[c].cancelled \in {"fetch", "fetched"}
             /\ AttemptEnds(c)
             /\ execId'[calls[c].store] = calls[c].id
             /\ ~destroyed'[calls[c].store])
          => state'[calls[c].store] = ErrorState(0, "CancellationError")]_vars

\* C5: once a store is destroyed no step changes its published state.
C5_DestroyedStateFrozen ==
    [][\A s \in Stores : destroyed[s] => state'[s] = state[s]]_vars

\* C5 witness: a destroyed store whose in-flight request has completed
\* while the published state is still the loading it had at destroy()
C5_Witness ==
    \E s \in Stores :
        /\ destroyed[s] /\ state[s].type = "loading"
        /\ \E c \in Ids : calls[c].pc = "done"
        /\ \A c \in Ids : calls[c].pc \in {"none", "done"}

\* C6: every refetch() leaves no cache entry under the store's fingerprint
\* and, on a live store, starts a new attempt (new execution id, loading,
\* interceptor pipeline) instead of reading the cache; and when an attempt of
\* a refetch returns leaving success published on a live store, the published
\* data is the body its own network call delivered.
C6_RefetchBypassesCache ==
    [][\A s \in Stores : \A c \in Ids :
          /\ Refetch(s, MaxLive) =>
                /\ Key(s) \notin DOMAIN cache'
                /\ ~destroyed[s] =>
                      /\ counter' = counter + 1
                      /\ calls'[counter'].pc = "icpt"
                      /\ calls'[counter'].refetch
                      /\ state'[s].type = "loading"
          /\ (calls[c].refetch /\ calls[c].store = s /\ calls[c].pc = "parse"
                /\ calls'[c].pc = "done" /\ ~destroyed[s]
                /\ state'[s].type = "success")
             => state'[s].data \in {calls[c].id, InvalidBody(calls[c].id), -1}]_vars

\* C6 witness: a refetch is under way although the previous attempt had
\* succeeded with a cacheable description, and the entry is gone
C6_Witness ==
    \E s \in Stores : \E c \in Ids :
        /\ calls[c].refetch /\ calls[c].store = s /\ calls[c].pc = "icpt"
        /\ cfg[s].ttl > 0 /\ IsGetMethod(cfg[s])
        /\ state[s] = LoadingState(1)
        /\ Key(s) \notin DOMAIN cache

\* C7 as stated: a response with an empty status that reaches the newest,
\* unaborted attempt of a live store always ends that attempt in the empty
\* state, with no cache entry left under the request's fingerprint.
C7_EmptyStatusAlwaysEmpty ==
    [][\A c \in Ids :
          LET k == calls[c]
              s == k.store
          IN  (k.pc \in {"fetched", "parse"} /\ AttemptEnds(c) /\ k.out > 0
                 /\ k.out \in {204, 205} \cup cfg[s].emptyStatusCodes
                 /\ k.id = execId[s] /\ ~k.aborted /\ ~destroyed[s])
              => /\ state'[s] = EmptyState(k.out)
                 /\ GenerateCacheKey(k.fcfg) \notin DOMAIN cache']_vars

\* C7 amended: such a response ends the attempt in the empty state with no
\* cache entry left, or - only for an ok response whose body read or whose
\* onValidationError callback threw - in the failure path of that exception
\* (error state with ParsingError or NetworkError, or a retry), the cache
\* untouched; it never yields success, and a 204/205 response of a request
\* without a throwing callback always yields empty.
C7_EmptyStatusEmptyUnlessThrow ==
    [][\A c \in Ids :
          LET k == calls[c]
              s == k.store
              isEmpty == /\ state'[s] = EmptyState(k.out)
                         /\ GenerateCacheKey(k.fcfg) \notin DOMAIN cache'
                         /\ calls'[c].pc = "done"
              threw == /\ k.pc = "parse"
                       /\ cache' = cache
                       /\ \/ calls'[c].pc \in {"backoff", "rejected"} /\ state' = state
                          \/ /\ calls'[c].pc = "done"
                             /\ state'[s] \in {ErrorState(0, "ParsingError"),
                                               ErrorState(0, "NetworkError")}
          IN  (k.pc \in {"fetched", "parse"} /\ AttemptEnds(c) /\ k.out > 0
                 /\ k.out \in {204, 205} \cup cfg[s].emptyStatusCodes
                 /\ k.id = execId[s] /\ ~k.aborted /\ ~destroyed[s])
              => /\ isEmpty \/ threw
                 /\ (k.out \in {204, 205} /\ k.fcfg.onValidationError # "throws")
                       => isEmpty]_vars

\* C7 witness: a 204 response left the store empty
C7_Witness ==
    \E s \in Stores : state[s] = EmptyState(204) /\ ~destroyed[s]

C9_NeverRejects ==
    \A c \in Ids : calls[c].pc # "rejected"

\* C10: a logical request waiting on the interceptor pipeline either goes on
\* to the fetch or returns for good - it never sleeps for a retry nor
\* rejects - and the step in which it returns publishes
\* {error, status null, data undefined, the thrown error} on a live store,
\* takes no execution id and issues no fetch.
C10_InterceptorThrowIsTerminal ==
    [][\A c \in Ids :
          calls[c].pc = "icpt" =>
             /\ calls'[c].pc \in {"icpt", "fetch", "fetched", "done"}
             /\ calls'[c].pc = "done" =>
                   /\ state'[calls[c].store] =
                         IF destroyed[calls[c].store] THEN state[calls[c].store]
                         ELSE ErrorState(0, "InterceptorError")
                   /\ counter' = counter
                   /\ \A d \in Ids : calls'[d].net = 0 \/ calls'[d].net = calls[d].net]_vars

\* C10 witness: the interceptor error is published by a request with
\* retries = 2 that has returned
C10_Witness ==
    \E s \in Stores :
        /\ state[s] = ErrorState(0, "InterceptorError")
        /\ cfg[s].retries = 2
        /\ \A c \in Ids : calls[c].pc \in {"none", "done"}

\* C11: an attempt whose pending network call was aborted by cancel() (the
\* timer had not fired: the call was still pending when cancel() ran) and
\* that ends while it is the newest of a live store is neither retried as a
\* timeout nor published as a TimeoutError.
C11_CancelIsNeverTimeout ==
    [][\A c \in Ids :
          (calls[c].pc = "fetched" /\ calls[c].cancelled = "fetch"
             /\ AttemptEnds(c)
             /\ execId[calls[c].store] = calls[c].id
             /\ ~destroyed[calls[c].store])
          => /\ calls'[c].pc # "backoff"
             /\ state'[calls[c].store].error # "TimeoutError"]_vars

LiveIds(h) ==
    LET Slots[n \in 0..Len(h)] ==
            IF n = 0 THEN << >>
            ELSE IF h[n] = "null" THEN Slots[n - 1] ELSE Append(Slots[n - 1], n - 1)
    IN  Slots[Len(h)]

\* the steps with the given ids applied to config one after the other
RECURSIVE Compose(_, _, _)
Compose(h, ids, config) ==
    IF ids = << >> THEN config
    ELSE Compose(h, Tail(ids), StepApply(h[Head(ids) + 1], config))

\* C13: a pipeline run during which no step was registered or ejected ran
\* exactly the live steps, once each, in registration order, and returned
\* the input passed through them in that order - the input itself when no
\* step is live.
C13_ApplyRunsLiveStepsInOrder ==
    (ret.op = "applyInterceptors" /\ ~ret.val.dirty)
    => /\ ret.val.ran = LiveIds(handlers)
       /\ ret.val.config = Compose(handlers, LiveIds(handlers), ret.arg)
       /\ LiveIds(handlers) = << >> => ret.val.config = ret.arg

\* C13 witness: a run returned after running two steps around an ejected one
C13_Witness ==
    /\ ret.op = "applyInterceptors" /\ ~ret.val.dirty
    /\ ret.val.ran = <<0, 2>>
    /\ ret.val.config = <<"x", "a", "b">>

\* C14: use() returns the number of use() calls made before it (0, 1, 2,
\* ...) and its step sits in the slot of that id; no step ever removes or
\* shifts a slot, so an id is never handed out twice; a slot only ever goes
\* from its step to null, and an eject touches no slot but the one of its id.
C14_IdsNeverReusedOrShifted ==
    [][/\ Len(handlers') >= Len(handlers)
       /\ \A j \in 1..Len(handlers) : handlers'[j] \in {handlers[j], "null"}
       /\ Len(handlers') > Len(handlers) =>
             /\ Len(handlers') = Len(handlers) + 1
             /\ ret'.op = "use" /\ ret'.val = Len(handlers)
             /\ handlers'[ret'.val + 1] = ret'.arg
       /\ ret'.op = "eject" =>
             /\ Len(handlers') = Len(handlers)
             /\ \A j \in 1..Len(handlers) :
                   j # ret'.arg + 1 => handlers'[j] = handlers[j]]_vars

\* C14 witness: after id 1 was ejected the next use() got id 2
C14_Witness ==
    /\ ret.op = "use" /\ ret.val = 2
    /\ handlers = <<"a", "null", ret.arg>>

\* C15: an eject whose id is negative, beyond the last id or already
\* ejected changes no slot, so the live steps and their order stay as they
\* were, and it returns undefined.
C15_EjectUnknownIsNoop ==
    [][(/\ ret'.op = "eject"
        /\ \/ ret'.arg < 0
           \/ ret'.arg >= Len(handlers)
           \/ handlers[ret'.arg + 1] = "null")
       => /\ handlers' = handlers
          /\ LiveIds(handlers') = LiveIds(handlers)
          /\ ret'.val = 0]_vars

\* C15 witness: eject(-1) returned with two live steps around an ejected one
C15_Witness ==
    /\ ret.op = "eject" /\ ret.arg = -1
    /\ handlers = <<"b", "null", "a">>

\* the fingerprint of a description, written out
Fp(rc) ==
    IF rc.cacheKey # "" THEN rc.cacheKey
    ELSE (IF rc.method = "" THEN "GET" ELSE rc.method) \o ":" \o rc.url

\* this step is a direct call of the method op
Called(op) == ret'.op = op /\ ret'.alt # ret.alt

\* m without the entry under key
Without(m, key) == [k \in DOMAIN m \ {key} |-> m[k]]

\* C16: a get on a GET description whose fingerprint holds an entry returns
\* that entry and leaves the cache as it was when now <= ttlTimestamp, and
\* returns null and deletes that entry alone when ttlTimestamp < now; an
\* entry it returns is never past its expiry.
C16_GetReturnsLiveEvictsExpired ==
    [][(Called("get") /\ IsGetMethod(ret'.arg) /\ Fp(ret'.arg) \in DOMAIN cache)
       => LET e == cache[Fp(ret'.arg)] IN
          /\ now <= e.ttlTimestamp =>
                ret'.val.hit /\ ret'.val.entry = e /\ cache' = cache
          /\ e.ttlTimestamp < now =>
                ~ret'.val.hit /\ cache' = Without(cache, Fp(ret'.arg))
          /\ ret'.val.hit => ret'.val.entry.ttlTimestamp >= now]_vars

\* C16 witness: a get returned an entry at the very instant of its expiry
\* while the cache holds an entry that is past its own
C16_Witness ==
    /\ ret.op = "get" /\ ret.val.hit
    /\ ret.val.entry.ttlTimestamp = now
    /\ \E k \in DOMAIN cache : cache[k].ttlTimestamp < now

\* C17: invalidateByPattern(p) leaves exactly the entries whose fingerprint
\* does not match p, each as it was.
C17_PatternRemovesExactlyMatches ==
    [][Called("invalidateByPattern")
       => /\ DOMAIN cache' =
                {k \in DOMAIN cache : ~StartsWith(k, ret'.arg.prefix)}
          /\ \A k \in DOMAIN cache' : cache'[k] = cache[k]]_vars

\* key is untouched by this step: absent before and after, or the same entry
Untouched(key) ==
    /\ key \in DOMAIN cache <=> key \in DOMAIN cache'
    /\ key \in DOMAIN cache => cache'[key] = cache[key]

\* C18: the entry a get returns, the entry a set writes and the entry an
\* invalidate deletes is the one under the fingerprint - the explicit
\* cacheKey when given, else method:url with GET for a missing method - and
\* these calls touch no entry under any other key; two GET descriptions
\* with the same fingerprint get the same answer from get, and two
\* descriptions with the same fingerprint invalidate the same entry.
C18_FingerprintAddressesEntry ==
    [][/\ (Called("get") /\ ret'.val.hit) =>
             /\ Fp(ret'.arg) \in DOMAIN cache
             /\ ret'.val.entry = cache[Fp(ret'.arg)]
       /\ Called("get") =>
             \A k \in DOMAIN cache \cup DOMAIN cache' : k # Fp(ret'.arg) => Untouched(k)
       /\ Called("set") =>
             /\ \A k \in DOMAIN cache \cup DOMAIN cache' :
                   k # Fp(ret'.arg.config) => Untouched(k)
             /\ (IsGetMethod(ret'.arg.config) /\ ret'.arg.ttl > 0) =>
                   /\ Fp(ret'.arg.config) \in DOMAIN cache'
                   /\ cache'[Fp(ret'.arg.config)].data = ret'.arg.data
       /\ Called("invalidate") =>
             /\ Fp(ret'.arg) \notin DOMAIN cache'
             /\ \A k \in DOMAIN cache : k # Fp(ret'.arg) => Untouched(k)
             /\ \A r2 \in StoreConfigs :
                   Fp(r2) = Fp(ret'.arg) => CacheInvalidate(cache, r2) = cache'
       /\ (Called("get") /\ IsGetMethod(ret'.arg)) =>
             \A r2 \in StoreConfigs :
                (IsGetMethod(r2) /\ Fp(r2) = Fp(ret'.arg)) =>
                   /\ CacheGet(cache, r2, now).cache = cache'
                   /\ CacheGet(cache, r2, now).hit = ret'.val.hit]_vars

\* C18 witness: a description without method got, by get, the entry written
\* through a description with method GET and the same url
C18_Witness ==
    /\ ret.op = "get" /\ ret.val.hit
    /\ ret.arg.method = "" /\ ret.arg.url = "/a" /\ ret.arg.cacheKey = ""
    /\ ret.val.entry.by.method = "GET"
    /\ "k" \in DOMAIN cache

\* C19: a set on a GET description with ttl > 0 leaves under the
\* fingerprint the entry {data, status, ttlTimestamp: now + ttl}, whatever
\* was there, and touches no other entry; and the get that follows such a
\* set with the same fingerprint, no later than the expiry, returns that
\* entry.
C19_SetStoresEntry ==
    [][/\ (Called("set") /\ IsGetMethod(ret'.arg.config) /\ ret'.arg.ttl > 0) =>
             LET key == Fp(ret'.arg.config) IN
             /\ DOMAIN cache' = DOMAIN cache \cup {key}
             /\ cache'[key].data = ret'.arg.data
             /\ cache'[key].status = ret'.arg.status
             /\ cache'[key].ttlTimestamp = now + ret'.arg.ttl
             /\ \A k \in DOMAIN cache : k # key => cache'[k] = cache[k]
       /\ (/\ Called("get") /\ ret.op = "set"
           /\ IsGetMethod(ret.arg.config) /\ ret.arg.ttl > 0
           /\ IsGetMethod(ret'.arg) /\ Fp(ret'.arg) = Fp(ret.arg.config)
           /\ now <= cache[Fp(ret'.arg)].ttlTimestamp) =>
             /\ ret'.val.hit
             /\ ret'.val.entry.data = ret.arg.data
             /\ ret'.val.entry.status = ret.arg.status
             /\ ret'.val.entry.ttlTimestamp = cache[Fp(ret'.arg)].ttlTimestamp
             /\ cache' = cache]_vars

\* C19 witness: a set replaced the body under a key, next to another entry
C19_Witness ==
    /\ ret.op = "set" /\ ret.arg.ttl > 0 /\ ret.arg.data = 2
    /\ Fp(ret.arg.config) = "k" /\ IsGetMethod(ret.arg.config)
    /\ now = 1 /\ "k" \in DOMAIN cache /\ cache["k"].ttlTimestamp = 2
    /\ "GET:/a" \in DOMAIN cache /\ cache["GET:/a"].ttlTimestamp = 1

\* C20: invalidate, given a description or a key string, leaves the cache
\* without the entry under that fingerprint and with every other entry as
\* it was; with no entry there the cache is unchanged.
C20_InvalidateRemovesOne ==
    [][/\ Called("invalidate") =>
             /\ cache' = Without(cache, Fp(ret'.arg))
             /\ Fp(ret'.arg) \notin DOMAIN cache => cache' = cache
       /\ Called("invalidateKey") =>
             /\ cache' = Without(cache, ret'.arg)
             /\ ret'.arg \notin DOMAIN cache => cache' = cache]_vars

\* C20 witness: an invalidate by key string hit no entry and two remain
C20_Witness ==
    /\ ret.op = "invalidateKey" /\ ret.arg = "GET:/ab/c"
    /\ DOMAIN cache = {"GET:/ab", "k"}

\* a logical request of store s starts in this step
Starts(c, s) ==
    calls[c].pc = "none" /\ calls'[c].pc # "none" /\ calls'[c].store = s

\* C21: the construction of a GET store runs the cache lookup (unless
\* forceRefresh is set) and, on a miss, starts the first attempt (a new execution id, state loading, the
\* request on its way to the network) with no call by the user; the
\* construction of a non-GET store leaves it idle and starts nothing, and
\* such a store leaves idle, and gets a logical request, only by refetch().
C21_GetStartsOnConstruction ==
    [][\A s \in Stores :
          /\ (~created[s] /\ created'[s]) =>
                IF IsGetMethod(cfg'[s])
                THEN \/ /\ ~cfg'[s].forceRefresh /\ Key(s)' \in DOMAIN cache
                        /\ state'[s].type = "success"
                        /\ counter' = counter /\ calls' = calls
                     \/ /\ cfg'[s].forceRefresh \/ Key(s)' \notin DOMAIN cache'
                        /\ counter' = counter + 1
                        /\ Starts(counter', s)
                        /\ calls'[counter'].pc = "icpt" /\ ~calls'[counter'].refetch
                        /\ execId'[s] = counter'
                        /\ state'[s].type = "loading"
                ELSE /\ state'[s] = initialState
                     /\ counter' = counter /\ calls' = calls /\ cache' = cache
          /\ (created[s] /\ created'[s] /\ ~IsGetMethod(cfg[s])) =>
                /\ \A c \in Ids : Starts(c, s) => calls'[c].refetch
                /\ (state[s] = initialState /\ state'[s] # initialState) =>
                      \E c \in Ids : Starts(c, s) /\ calls'[c].refetch]_vars

\* C21 witness: a GET store created after earlier ones, the clock having
\* moved, has its first request, not a refetch, waiting on the network
C21_Witness ==
    \E c \in Ids :
        /\ calls[c].pc = "fetch" /\ ~calls[c].refetch /\ calls[c].net = 1
        /\ IsGetMethod(cfg[calls[c].store])
        /\ c > 1 /\ now > 0

\* C22: a success state whose body fails the configured response schema
\* carries the ValidationError in its error field.
C22_ValidationErrorAttached ==
    \A s \in Stores :
        (state[s].type = "success" /\ cfg[s].validate /\ FailsSchema(state[s].data))
        => state[s].error = "ValidationError"

\* C23: the construction of a GET store with forceRefresh does not touch
\* the cache and starts a network attempt (state loading), whatever entry
\* is cached under its fingerprint; and a store is given a success state by
\* anything but the parsed response of its own request only at the
\* construction of a GET store without forceRefresh.
C23_ForceRefreshBypassesCache ==
    [][\A s \in Stores :
          /\ (~created[s] /\ created'[s] /\ IsGetMethod(cfg'[s]) /\ cfg'[s].forceRefresh) =>
                /\ cache' = cache
                /\ counter' = counter + 1
                /\ Starts(counter', s) /\ calls'[counter'].pc = "icpt"
                /\ state'[s].type = "loading"
          /\ (/\ state'[s] # state[s] /\ state'[s].type = "success"
              /\ ~\E c \in Ids : /\ calls[c].store = s /\ calls[c].pc = "parse"
                                 /\ calls'[c].pc = "done") =>
                /\ ~created[s]
                /\ IsGetMethod(cfg'[s]) /\ ~cfg'[s].forceRefresh]_vars

\* C23 witness: the first request of a forceRefresh store waits on the
\* network while a live entry sits under its fingerprint
C23_Witness ==
    \E c \in Ids :
        /\ calls[c].pc = "fetch" /\ ~calls[c].refetch
        /\ cfg[calls[c].store].forceRefresh
        /\ Key(calls[c].store) \in DOMAIN cache
        /\ cache[Key(calls[c].store)].ttlTimestamp >= now

\* C24: cancel(), destroy() and refetch() on a destroyed store return at
\* once: no step on a destroyed store starts a logical request, takes an
\* execution id or a controller for it (only a request that was already
\* sleeping in its backoff does), or changes its state; and a promise is
\* only ever rejected by the continuation of a request in flight, never by
\* the call of an operation.
C24_OperationsAfterDestroyReturn ==
    [][\A s \in Stores :
          /\ destroyed[s] =>
                /\ destroyed'[s]
                /\ \A c \in Ids : ~Starts(c, s)
                /\ (execId'[s] # execId[s] \/ ctrl'[s] # ctrl[s]) =>
                      \E c \in Ids : /\ calls[c].pc = "backoff" /\ calls[c].store = s
                                     /\ calls'[c].pc = "done"
                /\ state'[s] = state[s]
          /\ \A c \in Ids :
                (calls'[c].pc = "rejected" /\ calls[c].pc # "rejected") =>
                   calls[c].pc \in InFlight]_vars

\* C24 witness: refetch() was called on a destroyed store: the entry its
\* only attempt had written is invalidated and nothing else happened
C24_Witness ==
    \E s \in Stores :
        /\ destroyed[s] /\ cfg[s] = BaseConfig
        /\ state[s].type = "success" /\ counter = 1
        /\ cache = << >>
        /\ \A c \in Ids : calls[c].pc \in {"none", "done"}

Superseded(c, c2) ==
    /\ c2 > c /\ calls[c].store # 0 /\ calls[c2].store = calls[c].store
    /\ calls[c2].refetch
    /\ calls[c].pc \in InFlight \cup {"backoff"}
    /\ calls[c2].pc \in InFlight \cup {"backoff"}

\* C26: a logical request that a refetch has superseded starts no further
\* attempt: none of its steps takes a new execution id or goes (back) to an
\* attempt from the backoff, and none aborts the signal of the newer request.
C26_SupersededRequestStops ==
    [][\A c, c2 \in Ids :
          (Superseded(c, c2) /\ calls'[c] # calls[c]) =>
             /\ counter' = counter
             /\ calls[c].pc = "backoff" => calls'[c].pc \notin InFlight
             /\ calls'[c2].aborted = calls[c2].aborted]_vars

\* C27: with retries left and no retryOn predicate, the attempt whose fetch
\* was rejected by a transport failure goes to the backoff for a retry and
\* commits nothing.
C27_TransportFailureRetried ==
    [][\A c \in Ids :
          LET s == calls[c].store IN
          (/\ calls[c].pc = "fetched" /\ calls[c].out = 0 /\ ~calls[c].aborted
           /\ calls'[c].pc # "fetched"
           /\ cfg[s].retryOn = "none"
           /\ cfg[s].retries > 0 /\ calls[c].attempt <= cfg[s].retries) =>
             /\ calls'[c].pc = "backoff"
             /\ state'[s] = state[s]]_vars

\* the retry policy of description rc accepts the error of the error state
\* st: the configured predicate when there is one, else the default one
PolicyAccepts(rc, st) ==
    IF rc.retryOn = "none"
    THEN \/ st.error \in {"NetworkError", "TimeoutError"}
         \/ (st.error = "HttpError" /\ st.status >= 500)
    ELSE rc.retryOn = "true"

\* C28: a logical request never has more than retries + 1 network calls,
\* and exactly one when it reaches the network with retries 0; and the
\* request that gives up on an error its retry policy accepts has made
\* exactly retries + 1 network calls.
C28_AtMostRetriesPlusOneCalls ==
    [][\A c \in Ids :
          LET s == calls[c].store IN
          calls[c].store # 0 =>
             /\ calls'[c].net <= cfg[s].retries + 1
             /\ (cfg[s].retries = 0 /\ calls[c].pc \in {"fetch", "fetched", "parse", "errbody"})
                   => calls[c].net = 1
             /\ (/\ calls[c].pc \in {"fetched", "parse", "errbody"}
                 /\ calls'[c].pc = "done"
                 /\ state'[s] # state[s] /\ state'[s].type = "error"
                 /\ PolicyAccepts(cfg[s], state'[s]))
                   => calls[c].net = cfg[s].retries + 1]_vars

\* the attempt of call c fails in this step with an error of one of the
\* kinds TimeoutError, ParsingError, CancellationError, HttpError
FailsWith(c) ==
    LET k == calls[c] IN
    IF k.pc = "fetched" /\ calls'[c].pc # "fetched"
    THEN IF k.out > 0 /\ k.aborted THEN "CancellationError"
         ELSE IF k.out = -1 /\ k.fcfg.timeout # 0 THEN "TimeoutError"
         ELSE ""
    ELSE IF k.pc = "parse" /\ calls'[c].body = "parseThrows" THEN "ParsingError"
    ELSE IF k.pc = "errbody" /\ calls'[c].pc # "errbody" THEN "HttpError"
    ELSE ""

\* C29: with a retryOn predicate and retries left, the attempt that fails
\* with a TimeoutError, ParsingError, CancellationError or HttpError goes to
\* the backoff for a retry exactly when the predicate returns true for it.
C29_RetryOnDecides ==
    [][\A c \in Ids :
          LET s == calls[c].store IN
          (/\ calls[c].store # 0
           /\ cfg[s].retryOn \in {"true", "false"}
           /\ cfg[s].retries > 0 /\ calls[c].attempt <= cfg[s].retries
           /\ FailsWith(c) # "") =>
             (calls'[c].pc = "backoff" <=> cfg[s].retryOn = "true")]_vars

Fires(t) == t \in timers /\ t \notin timers' /\ timeoutId' = timeoutId

\* C31: the timer an attempt armed, when it fires, aborts the signal of that
\* attempt and of no other, and it fires only while that attempt is still
\* unsettled.
C31_TimerAbortsOwnAttempt ==
    [][\A t \in timers :
          Fires(t) =>
             /\ \E c \in Ids : calls[c].id = t[1] /\ calls[c].pc \in InFlight
             /\ \A c \in Ids : calls'[c] # calls[c] => calls[c].id = t[1]]_vars

\* C32: when a logical request returns leaving the error state of an HTTP
\* error, a transport failure, a timeout or a parse failure published, the
\* cache holds no entry under the store's fingerprint.
C32_ErrorLeavesNoEntry ==
    [][\A c \in Ids :
          LET s == calls[c].store IN
          (/\ calls[c].pc \in {"fetched", "parse", "errbody"}
           /\ calls'[c].pc = "done"
           /\ state[s].type = "loading" /\ state'[s].type = "error") =>
             Key(s) \notin DOMAIN cache']_vars

\* C33: the newest attempt of a live store that receives a response with ok
\* false and a status that is not an empty status goes on to read the error
\* body, and when that read settles - with a payload or with a failure -
\* the request returns leaving {error, that status, data undefined,
\* HttpError} whose body is the parsed payload or undefined; a body that
\* cannot be parsed never gives another kind of error.
C33_HttpErrorState ==
    [][\A c \in Ids :
          LET k == calls[c]
              s == k.store
          IN  /\ (/\ k.pc = "fetched" /\ calls'[c].pc # "fetched"
                  /\ k.out > 0 /\ ~k.aborted /\ k.id = execId[s] /\ ~destroyed[s]
                  /\ ~ResponseOk(k.out)
                  /\ k.out \notin {204, 205} \cup cfg[s].emptyStatusCodes) =>
                    /\ calls'[c].pc = "errbody"
                    /\ state' = state
              /\ (k.pc = "errbody" /\ calls'[c].pc # "errbody") =>
                    /\ calls'[c].pc = "done"
                    /\ ~destroyed[s] =>
                          /\ state'[s].type = "error"
                          /\ state'[s].status = k.out
                          /\ state'[s].data = 0
                          /\ state'[s].error = "HttpError"
                          /\ state'[s].errorBody \in {k.id, 0}]_vars

\* C33 witness: a 500 whose body was not JSON left the HttpError state with
\* an undefined body
C33_Witness ==
    \E s \in Stores :
        /\ state[s] = HttpErrorState(500, 0)
        /\ ~destroyed[s]
        /\ \A c \in Ids : calls[c].pc \in {"none", "done"}

\* C34: every attempt that starts on a live store - the first of a request
\* or a retry - publishes {loading, status null, error undefined}; its data
\* is the data of the state it replaces when that state is success or
\* loading, so the data of a success state is carried through the loading
\* states of retries and superseding requests, and it is undefined after
\* idle, empty or error.
C34_LoadingKeepsPreviousData ==
    [][\A c \in Ids :
          LET s == calls'[c].store IN
          (calls[c].pc \in {"none", "backoff"} /\ calls'[c].pc = "icpt") =>
             /\ state'[s].type = "loading"
             /\ state'[s].status = 0
             /\ state'[s].error = ""
             /\ state'[s].errorBody = 0
             /\ state[s].type \in {"success", "loading"} =>
                   state'[s].data = state[s].data
             /\ state[s].type \in {"idle", "empty", "error"} =>
                   state'[s].data = 0]_vars

\* C34 witness: two requests of one store are in their interceptor
\* pipelines and the loading state still shows the data of the success
\* state that came before both
C34_Witness ==
    \E s \in Stores, c, d \in Ids :
        /\ c # d
        /\ calls[c].store = s /\ calls[d].store = s
        /\ calls[c].pc = "icpt" /\ calls[d].pc = "icpt"
        /\ state[s].type = "loading" /\ state[s].data # 0
        /\ ~destroyed[s]

\* C35: the state signal of a store starts as the idle state and a store
\* created for a method other than GET is idle when the constructor returns;
\* once the state of a store is not idle no step makes it idle again: not a
\* request, a refetch, a cancel, a retry, a timer or a completion, so the
\* only operation that is left to do it is destroy() (which publishes
\* nothing either).
C35_IdleOnlyInitially ==
    [][\A s \in Stores :
          /\ ~created[s] => state[s] = initialState
          /\ (~created[s] /\ created'[s] /\ ~IsGetMethod(cfg'[s])) =>
                state'[s] = initialState
          /\ (state[s].type # "idle" /\ state'[s].type = "idle") =>
                (destroyed'[s] /\ ~destroyed[s])
          /\ (state[s].type # "idle" /\ destroyed[s] = destroyed'[s]) =>
                state'[s].type # "idle"]_vars

\* C35 witness: a store that left idle, ran more than one attempt to the
\* end and was destroyed afterwards shows its last outcome
C35_Witness ==
    \E s \in Stores :
        /\ destroyed[s]
        /\ execId[s] > 1
        /\ state[s].type \in {"success", "empty", "error"}
        /\ \A c \in Ids : calls[c].pc \in {"none", "done"}

\* C36: when an attempt ends by writing a cache entry, the entry is under
\* the fingerprint of the store's own description, the one the store looks
\* up when it is created and the one refetch() invalidates, whatever the
\* interceptors did to the config of the attempt.
C36_WrittenUnderLookupFingerprint ==
    [][\A c \in Ids :
          (calls[c].pc = "parse" /\ calls'[c].pc = "done") =>
             \A key \in DOMAIN cache' :
                (key \notin DOMAIN cache \/ cache'[key] # cache[key]) =>
                   key = Key(calls[c].store)]_vars

\* C37: an attempt that a refetch() of its store has superseded - its
\* execution id is no longer the store's - writes no cache entry under the
\* store's fingerprint when it ends, so that an entry under the fingerprint
\* is the one of the refetch.
C37_SupersededWritesNoEntry ==
    [][\A c \in Ids :
          LET s == calls[c].store IN
          (/\ calls[c].pc \in InFlight /\ calls'[c].pc = "done"
           /\ calls[c].id # execId[s]
           /\ \E d \in Ids : /\ calls[d].store = s /\ calls[d].refetch
                             /\ calls[d].id = execId[s]) =>
             (Key(s) \in DOMAIN cache' =>
                 /\ Key(s) \in DOMAIN cache
                 /\ cache'[Key(s)] = cache[Key(s)])]_vars

\* C38: a store that is created with a cache hit publishes a body that was
\* fetched from the server its own resolved URL points to: stores of
\* clients with different base URLs and the same relative url do not share
\* an entry.
C38_HitFromOwnResolvedUrl ==
    [][\A s \in Stores :
          (~created[s] /\ created'[s] /\ state'[s].type = "success") =>
             ServerOfBody(state'[s].data)
                = ServerOf(BuildRequestUrl(baseURL'[s], cfg'[s].url))]_vars

\* C39: when every pending interceptor pipeline, network call, body read
\* and backoff delay of a request settles, a store that is loading gets to
\* success, empty or error - also after cancel() aborted its only attempt.
C39_LoadingSettles ==
    \A s \in Stores :
        (state[s].type = "loading" /\ ~destroyed[s])
            ~> (state[s].type \in {"success", "empty", "error"})

\* C40: a logical request during whose backoff delay cancel() was called
\* makes no network call after that, and no step of it takes the state of
\* its store to loading.
C40_CancelStopsSleepingRequest ==
    [][\A c \in Ids :
          LET s == calls[c].store IN
          calls[c].cancelled = "backoff" =>
             /\ calls'[c].net <= calls[c].net
             /\ (calls'[c] # calls[c] /\ state[s].type # "loading") =>
                   state'[s].type # "loading"]_vars
====
